---- MODULE Spec2Model ----
(***************************************************************************)
(* JarvisBrain: the RAG chunker (core/rag/document_processor.py), the      *)
(* FAISS-backed vector store (core/memory/vector_store.py), the content    *)
(* retriever (core/rag/retriever.py), the knowledge base                   *)
(* (core/rag/knowledge_base.py), the short-term memory                     *)
(* (core/memory/short_term.py), the task manager                           *)
(* (personal/task_manager.py) and the action executor                      *)
(* (core/agent/executor.py).                                               *)
(*                                                                         *)
(* Strings are sequences of one-character strings.  Positions named after  *)
(* the Python source (start, end, pos, endpos) are 0-based, as there.      *)
(***************************************************************************)
EXTENDS Integers, Sequences, FiniteSets, Bags, TLC

VARIABLES
    \* DocumentProcessor: configuration and the locals of _split_into_chunks
    text, chunk_size, chunk_overlap, min_chunk_size,
    start, chunks, pc, iters, merged,
    \* VectorStore: self.index, self.metadata, the two files of store_path
    index, metadata, disk_index, disk_metadata,
    \* the last VectorStore call and what it returned or raised
    result,
    \* history: records created so far, records removed by delete_vector,
    \* the vector and the id of every other record as add_vectors stored it
    next_rec, deleted, added,
    \* ContentRetriever: self.max_documents, self.similarity_threshold, and
    \* the last call with what it returned or raised
    self_max_documents, similarity_threshold, answer,
    \* KnowledgeBase: the clock, the files of base_dir, the chunks the
    \* retriever holds, the add_document call in progress (its position, its
    \* document, the steps it has taken), the last call's outcome
    now, files, kb_index, kb_pc, kb_doc, kb_trace, kb_result,
    \* history: every call of _generate_doc_id with the id it returned
    issued,
    \* ShortTermMemory: self.items, self.max_items, self.default_ttl, the
    \* value of datetime.now(), and the last call with its time and the items
    \* it found
    items, max_items, default_ttl, clock, mem_call,
    \* a delete_vector call in progress on one thread: its position, its
    \* argument, the position of the loop of _rebuild_index, the store as the
    \* call found it; what the last search on another thread had before it
    del_pc, del_id, del_i, del_pre, seen,
    \* KnowledgeBase history: whether a call has raised so far, the index
    \* and the files as the add_document call in progress, or the one that
    \* raised last, found them
    kb_raised, kb_before,
    \* TaskManager: the list in tasks.json
    tasks,
    \* ActionExecutor: self.execution_history, the execute_plan call in
    \* progress (its position, its plan, its results so far), the last call
    \* that ended
    execution_history, exec_pc, exec_plan, exec_results, exec_call

chunkVars == <<text, chunk_size, chunk_overlap, min_chunk_size,
               start, chunks, pc, iters, merged>>
storeVars == <<index, metadata, disk_index, disk_metadata, result,
               next_rec, deleted, added>>
retrVars == <<self_max_documents, similarity_threshold, answer>>
kbVars == <<now, files, kb_index, kb_pc, kb_doc, kb_trace, kb_result, issued>>
ragVars == <<retrVars, kbVars>>
memVars == <<items, max_items, default_ttl, clock, mem_call>>
concVars == <<del_pc, del_id, del_i, del_pre, seen>>
kbHist == <<kb_raised, kb_before>>
taskVars == <<tasks>>
execVars == <<execution_history, exec_pc, exec_plan, exec_results, exec_call>>
appVars == <<memVars, concVars, kbHist, taskVars, execVars>>
vars == <<chunkVars, storeVars, ragVars, appVars>>

Min(a, b) == IF a < b THEN a ELSE b
Max(a, b) == IF a > b THEN a ELSE b

(***************************************************************************)
(* Bounds of the model.                                                    *)
(***************************************************************************)
MaxTextLen == 6
MaxChunkSize == 4
MaxMinChunk == 2
Dimension == 2
MaxBatch == 2
MaxRecords == 3
MaxK == 2

(***************************************************************************)
(* Characters.                                                             *)
(***************************************************************************)
Whitespace == {" ", "\n", "\t", "\r"}
Terminators == {".", "!", "?"}
Quotes == {"\"", "'"}
Alphabet == {"a", "b", ".", " "}

\* "A. B. C.", the specification's chunking example
ExampleText == <<"A", ".", " ", "B", ".", " ", "C", ".">>

(***************************************************************************)
(* Python string primitives.                                               *)
(***************************************************************************)
\* a slice bound as Python normalises it for a string of length n
PyIdx(n, i) == IF i < 0 THEN Max(0, n + i) ELSE Min(i, n)

\* s[i:j]
PySlice(s, i, j) ==
    LET a == PyIdx(Len(s), i)
        b == PyIdx(Len(s), j)
    IN  IF a >= b THEN <<>> ELSE SubSeq(s, a + 1, b)

\* s[i:]
PySliceFrom(s, i) == PySlice(s, i, Len(s))

RECURSIVE LStrip(_)
LStrip(s) ==
    IF s # <<>> /\ Head(s) \in Whitespace THEN LStrip(Tail(s)) ELSE s

RECURSIVE RStrip(_)
RStrip(s) ==
    IF s # <<>> /\ s[Len(s)] \in Whitespace
    THEN RStrip(SubSeq(s, 1, Len(s) - 1))
    ELSE s

\* s.strip()
Strip(s) == RStrip(LStrip(s))

\* re.sub(r'\s+', ' ', s)
RECURSIVE CollapseWhitespace(_)
CollapseWhitespace(s) ==
    IF s = <<>> THEN <<>>
    ELSE IF Head(s) \in Whitespace
         THEN <<" ">> \o CollapseWhitespace(LStrip(s))
         ELSE <<Head(s)>> \o CollapseWhitespace(Tail(s))

\* DocumentProcessor._clean_text: after the whitespace substitution no line
\* break is left, so the line handling that follows changes nothing
clean_text(s) == Strip(CollapseWhitespace(s))

(***************************************************************************)
(* patterns['sentence'] = [.!?]+["']?\s+  and  pattern.search(t,pos,endpos)*)
(***************************************************************************)
\* the first 0-based position k >= i with k = endpos or t[k] not in S
RECURSIVE SkipWhile(_, _, _, _)
SkipWhile(t, i, endpos, S) ==
    IF i < endpos /\ t[i + 1] \in S THEN SkipWhile(t, i + 1, endpos, S) ELSE i

NoMatch == -1

\* the end of the match that starts at position i (a terminator), or NoMatch
SentenceMatchEnd(t, i, endpos) ==
    LET j == SkipWhile(t, i, endpos, Terminators)
        q == IF j < endpos /\ t[j + 1] \in Quotes
                /\ j + 1 < endpos /\ t[j + 2] \in Whitespace
             THEN j + 1
             ELSE j
    IN  IF q < endpos /\ t[q + 1] \in Whitespace
        THEN SkipWhile(t, q, endpos, Whitespace)
        ELSE NoMatch

\* patterns['sentence'].search(t, pos, endpos): the end of the leftmost match
SentenceSearch(t, pos, endpos) ==
    LET p == Max(0, pos)
        e == Max(0, Min(Len(t), endpos))
        starts == {i \in p .. (e - 1) :
                     /\ t[i + 1] \in Terminators
                     /\ SentenceMatchEnd(t, i, e) # NoMatch}
    IN  IF starts = {} THEN NoMatch
        ELSE SentenceMatchEnd(t, CHOOSE i \in starts : \A k \in starts : i <= k, e)

\* the radius of the window searched for a sentence end around the nominal cut
SentenceWindow == 100

(***************************************************************************)
(* DocumentProcessor.merge_chunks and _find_overlap                        *)
(***************************************************************************)
find_overlap(text1, text2) ==
    LET sizes == {size \in 1 .. Min(Len(text1), Len(text2)) :
                    PySliceFrom(text1, -size) = PySlice(text2, 0, size)}
    IN  IF sizes = {} THEN 0
        ELSE CHOOSE size \in sizes : \A k \in sizes : k <= size

\* the list `merged` after the first n chunks
RECURSIVE MergedList(_, _)
MergedList(cs, n) ==
    IF n = 0 THEN <<>>
    ELSE LET prev == MergedList(cs, n - 1)
             chunk == cs[n]
             overlap == IF n > 1 THEN find_overlap(prev[n - 1], chunk) ELSE 0
         IN  Append(prev, IF overlap # 0 THEN PySliceFrom(chunk, overlap)
                          ELSE chunk)

\* ' '.join(parts)
RECURSIVE JoinSpace(_)
JoinSpace(parts) ==
    IF parts = <<>> THEN <<>>
    ELSE IF Len(parts) = 1 THEN parts[1]
    ELSE parts[1] \o <<" ">> \o JoinSpace(Tail(parts))

merge_chunks(cs) == JoinSpace(MergedList(cs, Len(cs)))

\* a text without its whitespace characters
RECURSIVE NonWhitespace(_)
NonWhitespace(s) ==
    IF s = <<>> THEN <<>>
    ELSE IF Head(s) \in Whitespace THEN NonWhitespace(Tail(s))
    ELSE <<Head(s)>> \o NonWhitespace(Tail(s))

(***************************************************************************)
(* DocumentProcessor._split_into_chunks, one loop iteration per step.      *)
(* pc: "split" inside the while loop, "split_done" once the chunks are     *)
(* returned, "merged" after merge_chunks, "idle" when no document is       *)
(* being processed.  iters counts the completed non-final iterations.      *)
(***************************************************************************)
\* a file of store_path: absent, or holding what save() wrote
NoFile == [exists |-> FALSE, data |-> <<>>]

\* `result` before any VectorStore call
NoCall ==
    [op |-> "init", vectors |-> <<>>, query |-> <<>>, k |-> 0, filter_func |-> "none",
     vector_id |-> 0, status |-> "ok", error |-> "", value |-> <<>>]

\* max_documents=None, the argument left out
Omitted == -1
\* no ContentRetriever call made yet
NoAnswer ==
    [op |-> "init", max_documents |-> Omitted, n_results |-> 0, candidates |-> <<>>,
     scores |-> <<>>, reranked |-> FALSE, status |-> "ok", error |-> "", value |-> <<>>]

\* no document in progress, no KnowledgeBase call made yet
NoDoc == [id |-> [key |-> "", time |-> 0, hash |-> 0], content |-> "", chunks |-> <<>>]
NoOutcome == [op |-> "init", id |-> NoDoc.id, status |-> "ok", value |-> "None"]

NoKB == [index |-> EmptyBag, files |-> {}]
NoResults == [success |-> TRUE, steps |-> <<>>, errors |-> 0, context |-> {}]
NoExecCall == [status |-> "none", plan |-> <<>>, results |-> NoResults,
               history |-> <<>>]
NoStore == [index |-> <<>>, metadata |-> <<>>]
NoSight == [pc |-> "idle", vector_id |-> 0, index |-> <<>>, metadata |-> <<>>,
            pre |-> NoStore]

\* expires_at of an item that never expires (None)
NoExpiry == Omitted
NoItemId == [time |-> 0, random_str |-> ""]
NoMemCall == [op |-> "init", item_id |-> NoItemId, at |-> 0, before |-> <<>>,
              value |-> <<>>]

AllTexts == UNION {[1 .. n -> Alphabet] : n \in 0 .. MaxTextLen}

\* process_document hands _split_into_chunks the output of _clean_text
CleanTexts == {t \in AllTexts : clean_text(t) = t} \cup {ExampleText}

\* every cleaned text up to MaxTextLen and every configuration with
\* 0 <= chunk_overlap < chunk_size and 1 <= min_chunk_size <= chunk_size
ChunkInit ==
    /\ text \in CleanTexts
    /\ chunk_size \in 1 .. MaxChunkSize
    /\ chunk_overlap \in 0 .. (chunk_size - 1)
    /\ min_chunk_size \in 1 .. Min(MaxMinChunk, chunk_size)
    /\ start = 0
    /\ chunks = <<>>
    /\ pc = "split"
    /\ iters = 0
    /\ merged = <<>>
    /\ index = <<>>
    /\ metadata = <<>>
    /\ disk_index = NoFile
    /\ disk_metadata = NoFile
    /\ result = NoCall
    /\ next_rec = 1
    /\ added = <<>>
    /\ deleted = {}
    /\ self_max_documents = 1
    /\ similarity_threshold = 0
    /\ answer = NoAnswer
    /\ now = 0
    /\ files = {}
    /\ kb_index = EmptyBag
    /\ kb_pc = 0
    /\ kb_doc = NoDoc
    /\ kb_trace = <<>>
    /\ kb_result = NoOutcome
    /\ issued = <<>>
    /\ items = <<>>
    /\ max_items = 1
    /\ default_ttl = 1
    /\ clock = 0
    /\ mem_call = NoMemCall
    /\ del_pc = "idle"
    /\ del_id = 0
    /\ del_i = 0
    /\ del_pre = NoStore
    /\ seen = NoSight
    /\ kb_raised = FALSE
    /\ kb_before = NoKB
    /\ tasks = <<>>
    /\ execution_history = <<>>
    /\ exec_pc = "idle"
    /\ exec_plan = <<>>
    /\ exec_results = NoResults
    /\ exec_call = NoExecCall

\* `if len(chunk) >= self.min_chunk_size: chunks.append(chunk)`
AppendChunk(cs, chunk) ==
    IF Len(chunk) >= min_chunk_size THEN Append(cs, chunk) ELSE cs

\* CutEnd with the search starting two radii before the nominal end
CutEnd_WideWindow(t, nominal) ==
    LET next_sentence ==
            SentenceSearch(t, nominal - 2 * SentenceWindow,
                           nominal + SentenceWindow)
    IN  IF next_sentence # NoMatch THEN next_sentence ELSE nominal

\* the cut of a non-final iteration: the end of a sentence match in the
\* window around the nominal end, else the nominal end
CutEnd(t, nominal) ==
    LET next_sentence ==
            SentenceSearch(t, nominal - SentenceWindow, nominal + SentenceWindow)
    IN  IF next_sentence # NoMatch THEN next_sentence ELSE nominal

\* `while start < len(text)` is false: return chunks
SplitLoopExit ==
    /\ pc = "split"
    /\ ~(start < Len(text))
    /\ pc' = "split_done"
    /\ UNCHANGED <<text, chunk_size, chunk_overlap, min_chunk_size,
                   start, chunks, iters, merged>>
    /\ UNCHANGED <<storeVars, ragVars, appVars>>

\* `if end >= len(text)`: the last chunk, then break
SplitLastChunk ==
    /\ pc = "split"
    /\ start < Len(text)
    /\ start + chunk_size >= Len(text)
    /\ chunks' = AppendChunk(chunks, Strip(PySliceFrom(text, start)))
    /\ pc' = "split_done"
    /\ UNCHANGED <<text, chunk_size, chunk_overlap, min_chunk_size,
                   start, iters, merged>>
    /\ UNCHANGED <<storeVars, ragVars, appVars>>

\* a non-final iteration: cut, emit, move start back by the overlap.
\* A run that makes progress on every iteration needs at most Len(text) of
\* them; the model follows a run for one iteration more than that.
SplitNextChunk ==
    /\ pc = "split"
    /\ start < Len(text)
    /\ start + chunk_size < Len(text)
    /\ iters <= Len(text)
    /\ LET end == CutEnd(text, start + chunk_size)
       IN  /\ chunks' = AppendChunk(chunks, Strip(PySlice(text, start, end)))
           /\ start' = end - chunk_overlap
    /\ iters' = iters + 1
    /\ UNCHANGED <<text, chunk_size, chunk_overlap, min_chunk_size, pc, merged>>
    /\ UNCHANGED <<storeVars, ragVars, appVars>>

\* merge_chunks applied to the chunks _split_into_chunks returned
MergeChunks ==
    /\ pc = "split_done"
    /\ merged' = merge_chunks(chunks)
    /\ pc' = "merged"
    /\ UNCHANGED <<text, chunk_size, chunk_overlap, min_chunk_size,
                   start, chunks, iters>>
    /\ UNCHANGED <<storeVars, ragVars, appVars>>

ChunkNext == SplitLoopExit \/ SplitLastChunk \/ SplitNextChunk \/ MergeChunks

SpecChunk == ChunkInit /\ [][ChunkNext]_vars

(***************************************************************************)
(* C1: for every text and every configuration with                         *)
(* 0 <= chunk_overlap < chunk_size, the window start of _split_into_chunks *)
(* strictly increases on every loop iteration (so the loop terminates,     *)
(* also on "A. B. C." with chunk_size 4, overlap 1, min_chunk_size 1).     *)
(***************************************************************************)
C1_StartStrictlyIncreases ==
    [][(pc = "split" /\ pc' = "split" /\ iters' = iters + 1) => start' > start]_vars

(***************************************************************************)
(* C2: for every whitespace-normalised text with                           *)
(* len(text) >= min_chunk_size, merge_chunks(_split_into_chunks(text)) is  *)
(* the text up to whitespace: no non-whitespace character is lost,         *)
(* duplicated or reordered.                                                *)
(***************************************************************************)
C2_MergeRestoresText ==
    (pc = "merged" /\ Len(text) >= min_chunk_size)
        => NonWhitespace(merged) = NonWhitespace(text)

(***************************************************************************)
(* C3: every chunk _split_into_chunks emits has a length L with            *)
(* min_chunk_size <= L <= chunk_size.                                      *)
(***************************************************************************)
C3_ChunkLengthInRange ==
    \A i \in 1 .. Len(chunks) :
        min_chunk_size <= Len(chunks[i]) /\ Len(chunks[i]) <= chunk_size

(***************************************************************************)
(* VectorStore.  self.index is the sequence of stored vectors (a flat      *)
(* FAISS index: position i holds the vector with id i), self.metadata the  *)
(* list of metadata dicts.  Every vector and every dict carries `rec`, the *)
(* number of the add_vectors record it was created for; `rec` is history   *)
(* only and no operation reads it.  The timestamps are left out.           *)
(***************************************************************************)
Tags == {"x"}
NoTag == "none"

\* the vectors the callers supply: every coordinate the same value; one
\* vector is longer than the dimension
Coords == {0, 1}
ConstVector(n, c) == [i \in 1 .. n |-> c]
ValidVectors == {ConstVector(Dimension, c) : c \in Coords}
LongVector == ConstVector(Dimension + 1, 0)
BadVectors == {LongVector}

\* the `vectors` argument of add_vectors: every batch of valid vectors, the
\* empty batch, the batches of long vectors only, and the batches with a
\* long vector in one place
ValidBatches == UNION {[1 .. n -> ValidVectors] : n \in 1 .. MaxBatch}
OneLong(n, j) ==
    [i \in 1 .. n |-> IF i = j THEN LongVector ELSE ConstVector(Dimension, 0)]
MismatchBatches ==
    {[i \in 1 .. n |-> LongVector] : n \in 1 .. MaxBatch}
        \cup UNION {{OneLong(n, j) : j \in 1 .. n} : n \in 2 .. MaxBatch}
Batches == ValidBatches \cup MismatchBatches \cup {<<>>}

\* its `metadata` argument: the tag each dict carries, one tag per call (the
\* empty list behaves as None)
MetaArgs == {<<>>} \cup {[i \in 1 .. n |-> t] : n \in 1 .. MaxBatch, t \in Tags}

\* Addable without the test of the vectors' length against the dimension
Addable_AnyLength(vectors) == Len(vectors) > 0

\* np.array(vectors).astype('float32') followed by index.add: accepted only
\* as a non-empty n x dimension array
Addable(vectors) ==
    /\ Len(vectors) > 0
    /\ \A i \in 1 .. Len(vectors) : Len(vectors[i]) = Dimension

\* list(range(start_id, start_id + len(vectors)))
VectorIds(start_id, n) == [i \in 1 .. n |-> start_id + i - 1]

\* the metadata entries one add_vectors call appends: one per supplied dict
\* (up to the first dict that has no vector), else one per vector
NewMetadata(vector_ids, md, first_rec) ==
    IF md # <<>>
    THEN [i \in 1 .. Min(Len(md), Len(vector_ids)) |->
            [vector_id |-> vector_ids[i], rec |-> first_rec + i - 1, tag |-> md[i]]]
    ELSE [i \in 1 .. Len(vector_ids) |->
            [vector_id |-> vector_ids[i], rec |-> first_rec + i - 1, tag |-> NoTag]]

\* `result` after a call: the call, the exception it raised or the value it
\* returned and, for add_vectors and search, the arguments it was given
Returned(op, value) ==
    [NoCall EXCEPT !.op = op, !.value = value]
Raised(op, exception) ==
    [NoCall EXCEPT !.op = op, !.status = "error", !.error = exception]
Given(vectors, outcome) == [outcome EXCEPT !.vectors = vectors]
Asked(query_vector, k, filter_func, outcome) ==
    [outcome EXCEPT !.query = query_vector, !.k = k, !.filter_func = filter_func]

\* what np.array(vectors).astype('float32') and index.add raise for a batch
\* they do not accept: ValueError for an empty or ragged list (no n x d
\* array), AssertionError for an n x d array with d # dimension
AddError(vectors) ==
    IF /\ Len(vectors) > 0
       /\ \A i \in 1 .. Len(vectors) : Len(vectors[i]) = Len(vectors[1])
    THEN "AssertionError"
    ELSE "ValueError"

add_vectors(vectors, md) ==
    /\ pc = "idle"
    /\ IF ~Addable(vectors)
       THEN \* np.array / index.add raise before anything is stored
            /\ result' = Given(vectors, Raised("add_vectors", AddError(vectors)))
            /\ UNCHANGED <<index, metadata, next_rec, added>>
       ELSE /\ next_rec + Len(vectors) - 1 <= MaxRecords
            /\ LET start_id == Len(index)
                   vector_ids == VectorIds(start_id, Len(vectors))
               IN  /\ index' = index \o [i \in 1 .. Len(vectors) |->
                                          [vec |-> vectors[i], rec |-> next_rec + i - 1]]
                   /\ metadata' = metadata \o NewMetadata(vector_ids, md, next_rec)
                   /\ result' = Given(vectors,
                                      IF Len(md) > Len(vectors)
                                      THEN \* vector_ids[i]: IndexError
                                           Raised("add_vectors", "IndexError")
                                      ELSE Returned("add_vectors", vector_ids))
            /\ next_rec' = next_rec + Len(vectors)
            /\ added' = added \o [i \in 1 .. Len(vectors) |->
                                    [vec |-> vectors[i],
                                     vector_id |-> Len(index) + i - 1]]
    /\ UNCHANGED <<disk_index, disk_metadata, deleted>>
    /\ UNCHANGED <<chunkVars, ragVars, appVars>>

\* the history entry of a record delete_vector has removed
Forgotten == [vec |-> <<>>, vector_id |-> 0]

\* get_vector on index idx: None for an id at or past the end, an error for
\* an id FAISS cannot reconstruct, else the stored vector
None == [kind |-> "none"]
GetVectorRaises == [kind |-> "raise"]
get_vector(idx, vector_id) ==
    IF vector_id >= Len(idx) THEN None
    ELSE IF vector_id < 0 THEN GetVectorRaises
    ELSE [kind |-> "vector", entry |-> idx[vector_id + 1]]

\* the loop of _rebuild_index over the first n metadata entries, run on the
\* index _init_index has just created: every vector is looked up in
\* self.index, which is that new index
RECURSIVE RebuildLoop(_, _)
RebuildLoop(metas, n) ==
    IF n = 0 THEN [index |-> <<>>, raised |-> FALSE]
    ELSE LET before == RebuildLoop(metas, n - 1)
             vector == get_vector(before.index, metas[n].vector_id)
         IN  IF before.raised THEN before
             ELSE IF vector.kind = "raise" THEN [before EXCEPT !.raised = TRUE]
             ELSE IF vector.kind = "none" THEN before
             ELSE [before EXCEPT !.index = Append(@, vector.entry)]

rebuild_index(metas) == RebuildLoop(metas, Len(metas))

\* Surviving with the comparison inverted: the matching entries are kept
Surviving_KeepsMatching(metas, vector_id) ==
    SelectSeq(metas, LAMBDA meta : meta.vector_id = vector_id)

\* the metadata list delete_vector keeps
Surviving(metas, vector_id) ==
    SelectSeq(metas, LAMBDA meta : meta.vector_id # vector_id)

delete_vector(vector_id) ==
    /\ pc = "idle"
    /\ LET kept == Surviving(metadata, vector_id)
           rebuilt == rebuild_index(kept)
       IN  /\ metadata' = kept
           /\ index' = rebuilt.index
           /\ result' = IF rebuilt.raised
                        THEN Raised("delete_vector", "RuntimeError")
                        ELSE Returned("delete_vector", <<>>)
           /\ deleted' = deleted \cup
                  {metadata[i].rec : i \in {j \in 1 .. Len(metadata) :
                                              metadata[j].vector_id = vector_id}}
           /\ added' = [rec \in 1 .. Len(added) |->
                          IF \E j \in 1 .. Len(metadata) :
                                metadata[j].rec = rec /\ metadata[j].vector_id = vector_id
                          THEN Forgotten
                          ELSE added[rec]]
    /\ UNCHANGED <<disk_index, disk_metadata, next_rec>>
    /\ UNCHANGED <<chunkVars, ragVars, appVars>>

\* squared L2 distance, as IndexFlatL2 reports it
RECURSIVE L2(_, _)
L2(a, b) ==
    IF a = <<>> THEN 0
    ELSE (Head(a) - Head(b)) * (Head(a) - Head(b)) + L2(Tail(a), Tail(b))

\* index.search(query, k): the positions of the k nearest vectors, nearest
\* first, equal distances in position order; fewer when the index is smaller
\* (the -1 slots, which search skips)
Nearest(idx, query, k) ==
    LET n == Len(idx)
        d(i) == L2(idx[i].vec, query)
        Before(i, j) == d(i) < d(j) \/ (d(i) = d(j) /\ i < j)
        Rank(i) == Cardinality({j \in 1 .. n : Before(j, i)})
    IN  [r \in 1 .. Min(k, n) |-> (CHOOSE i \in 1 .. n : Rank(i) = r - 1) - 1]

\* next((m for m in self.metadata if m['vector_id'] == idx), None)
HasMeta(metas, idx) == \E i \in 1 .. Len(metas) : metas[i].vector_id = idx
FirstMeta(metas, idx) ==
    metas[CHOOSE i \in 1 .. Len(metas) :
            /\ metas[i].vector_id = idx
            /\ \A j \in 1 .. (i - 1) : metas[j].vector_id # idx]

\* filter_func: None, or a predicate on the dict's tag
Filters == {NoTag} \cup Tags
FilterAccepts(filter_func, meta) == filter_func = NoTag \/ meta.tag = filter_func

\* SearchResults with the filter applied before the k nearest are taken
SearchResults_FilterFirst(idx, metas, query, k, filter_func) ==
    LET found == Nearest(idx, query, Len(idx))
        hit(r) == [vector_id |-> found[r],
                   distance |-> L2(idx[found[r] + 1].vec, query),
                   metadata |-> FirstMeta(metas, found[r])]
        keep == {r \in 1 .. Len(found) :
                   /\ HasMeta(metas, found[r])
                   /\ FilterAccepts(filter_func, FirstMeta(metas, found[r]))}
        pos(r) == Cardinality({q \in keep : q <= r})
    IN  [p \in 1 .. Min(k, Cardinality(keep)) |->
            hit(CHOOSE r \in keep : pos(r) = p)]

\* the loop of search over what index.search found: a position is reported
\* when a metadata dict carries its id and filter_func accepts that dict
SearchResults(idx, metas, query, k, filter_func) ==
    LET found == Nearest(idx, query, k)
        hit(r) == [vector_id |-> found[r],
                   distance |-> L2(idx[found[r] + 1].vec, query),
                   metadata |-> FirstMeta(metas, found[r])]
        keep == {r \in 1 .. Len(found) :
                   /\ HasMeta(metas, found[r])
                   /\ FilterAccepts(filter_func, FirstMeta(metas, found[r]))}
        pos(r) == Cardinality({q \in keep : q <= r})
    IN  [p \in 1 .. Cardinality(keep) |-> hit(CHOOSE r \in keep : pos(r) = p)]

search(query_vector, k, filter_func) ==
    /\ pc = "idle"
    /\ result' = IF Len(query_vector) # Dimension
                 THEN Raised("search", "AssertionError")
                 ELSE Asked(query_vector, k, filter_func,
                            Returned("search",
                                     SearchResults(index, metadata, query_vector, k,
                                                   filter_func)))
    /\ UNCHANGED <<index, metadata, disk_index, disk_metadata, next_rec, added, deleted>>
    /\ UNCHANGED <<chunkVars, ragVars, appVars>>

\* a call of get_vector: `result` holds the vector in a one-element sequence,
\* or nothing when None is returned
GetVector(vector_id) ==
    /\ pc = "idle"
    /\ LET vector == get_vector(index, vector_id)
       IN  result' = [(IF vector.kind = "raise"
                       THEN Raised("get_vector", "RuntimeError")
                       ELSE IF vector.kind = "none"
                       THEN Returned("get_vector", <<>>)
                       ELSE Returned("get_vector", <<vector.entry.vec>>))
                      EXCEPT !.vector_id = vector_id]
    /\ UNCHANGED <<index, metadata, disk_index, disk_metadata, next_rec, added,
                   deleted>>
    /\ UNCHANGED <<chunkVars, ragVars, appVars>>

\* the ids the callers ask for: stored ones, one past the end, negative ones
IdArgs == (0 - 1) .. MaxRecords

\* the callers pass no metadata, or one dict per vector
MetaArgsFor(vectors) == {md \in MetaArgs : md = <<>> \/ Len(md) = Len(vectors)}

\* a call that raises or only reads leaves the store as it is: the calls of
\* that kind that follow it are the ones that can be made in its place
Settled == result.op \in {"search", "get_vector"} \/ result.status = "error"

StoreNext ==
    \/ \E vectors \in ValidBatches : \E md \in MetaArgsFor(vectors) :
           add_vectors(vectors, md)
    \/ /\ ~Settled
       /\ \E vectors \in Batches \ ValidBatches : add_vectors(vectors, <<>>)
    \/ \E vector_id \in 0 .. (MaxRecords - 1) : delete_vector(vector_id)
    \/ /\ ~Settled
       /\ \E q \in ValidVectors \cup BadVectors, k \in 1 .. MaxK, f \in Filters :
             search(q, k, f)
    \/ /\ ~Settled
       /\ \E vector_id \in IdArgs : GetVector(vector_id)

\* a new VectorStore on an empty store_path; no document is being chunked
Init ==
    /\ text = <<>>
    /\ chunk_size = 1
    /\ chunk_overlap = 0
    /\ min_chunk_size = 1
    /\ start = 0
    /\ chunks = <<>>
    /\ pc = "idle"
    /\ iters = 0
    /\ merged = <<>>
    /\ index = <<>>
    /\ metadata = <<>>
    /\ disk_index = NoFile
    /\ disk_metadata = NoFile
    /\ result = NoCall
    /\ next_rec = 1
    /\ added = <<>>
    /\ deleted = {}
    /\ self_max_documents = 1
    /\ similarity_threshold = 0
    /\ answer = NoAnswer
    /\ now = 0
    /\ files = {}
    /\ kb_index = EmptyBag
    /\ kb_pc = 0
    /\ kb_doc = NoDoc
    /\ kb_trace = <<>>
    /\ kb_result = NoOutcome
    /\ issued = <<>>
    /\ items = <<>>
    /\ max_items = 1
    /\ default_ttl = 1
    /\ clock = 0
    /\ mem_call = NoMemCall
    /\ del_pc = "idle"
    /\ del_id = 0
    /\ del_i = 0
    /\ del_pre = NoStore
    /\ seen = NoSight
    /\ kb_raised = FALSE
    /\ kb_before = NoKB
    /\ tasks = <<>>
    /\ execution_history = <<>>
    /\ exec_pc = "idle"
    /\ exec_plan = <<>>
    /\ exec_results = NoResults
    /\ exec_call = NoExecCall

Spec == Init /\ [][StoreNext]_vars

(***************************************************************************)
(* Persistence: save(), load(), and a new VectorStore on the same          *)
(* store_path.  A write can fail; save() then raises with the files        *)
(* written so far left in place.                                           *)
(***************************************************************************)
File(data) == [exists |-> TRUE, data |-> data]

save ==
    /\ pc = "idle"
    /\ \/ \* both files written
          /\ disk_index' = File(index)
          /\ disk_metadata' = File(metadata)
          /\ result' = Returned("save", <<>>)
       \/ \* faiss.write_index fails
          /\ result' = Raised("save", "RuntimeError")
          /\ UNCHANGED <<disk_index, disk_metadata>>
       \/ \* index.faiss written, open(metadata_path, 'wb') fails
          /\ disk_index' = File(index)
          /\ result' = Raised("save", "OSError")
          /\ UNCHANGED disk_metadata
    /\ UNCHANGED <<index, metadata, next_rec, added, deleted>>
    /\ UNCHANGED <<chunkVars, ragVars, appVars>>

load ==
    /\ pc = "idle"
    /\ index' = IF disk_index.exists THEN disk_index.data ELSE index
    /\ metadata' = IF disk_metadata.exists THEN disk_metadata.data ELSE metadata
    /\ result' = Returned("load", <<>>)
    /\ UNCHANGED <<disk_index, disk_metadata, next_rec, added, deleted>>
    /\ UNCHANGED <<chunkVars, ragVars, appVars>>

\* VectorStore.__init__ in a new process: an empty index, no metadata
new_store ==
    /\ pc = "idle"
    /\ index' = <<>>
    /\ metadata' = <<>>
    /\ result' = NoCall
    /\ UNCHANGED <<disk_index, disk_metadata, next_rec, added, deleted>>
    /\ UNCHANGED <<chunkVars, ragVars, appVars>>

\* the calls of a process that stores vectors without metadata of its own
PersistNext ==
    \/ \E vectors \in Batches : add_vectors(vectors, <<>>)
    \/ \E vector_id \in 0 .. (MaxRecords - 1) : delete_vector(vector_id)
    \/ save
    \/ load
    \/ new_store

SpecPersist == Init /\ [][PersistNext]_vars

(***************************************************************************)
(* Claims about VectorStore.                                               *)
(***************************************************************************)
VectorIdArgs == 0 .. (MaxRecords - 1)

\* the record with this id is in the store: a vector at that position of the
\* index and a metadata entry naming it
Present(vector_id) == vector_id < Len(index) /\ HasMeta(metadata, vector_id)

(***************************************************************************)
(* C4: delete_vector(id), called with an id present in the store,          *)
(* decreases the number of vectors in the index (index.ntotal) by          *)
(* exactly 1.                                                              *)
(***************************************************************************)
C4_DeleteDecrementsCount ==
    [][\A vector_id \in VectorIdArgs :
          (Present(vector_id) /\ delete_vector(vector_id))
              => Len(index') = Len(index) - 1]_vars

(***************************************************************************)
(* C5: once delete_vector has removed a record, no search returns it:      *)
(* no result carries the record's metadata, and no result names an index   *)
(* position that holds the record's vector.                                *)
(***************************************************************************)
C5_DeletedNeverReturned ==
    (result.op = "search" /\ result.status = "ok")
        => \A r \in 1 .. Len(result.value) :
              /\ result.value[r].metadata.rec \notin deleted
              /\ index[result.value[r].vector_id + 1].rec \notin deleted

\* a search that returns something after a delete_vector removed a record
C5_Witness ==
    /\ result.op = "search"
    /\ result.value # <<>>
    /\ deleted # {}

(***************************************************************************)
(* C6: after delete_vector the index holds exactly the vectors of the      *)
(* surviving metadata entries, in their original relative order, and each  *)
(* surviving record's id equals its new position in the index.             *)
(***************************************************************************)
C6_RebuildKeepsSurvivors ==
    [][\A vector_id \in VectorIdArgs :
          (Present(vector_id) /\ delete_vector(vector_id))
              => /\ Len(index') = Len(metadata')
                 /\ \A i \in 1 .. Len(metadata') :
                       /\ index'[i].rec = metadata'[i].rec
                       /\ metadata'[i].vector_id = i - 1]_vars

(***************************************************************************)
(* C7: in every state reachable by add_vectors and delete_vector calls the *)
(* number of vectors in the index equals len(metadata), and the i-th       *)
(* metadata entry belongs to the i-th vector of the index.                 *)
(***************************************************************************)
C7_IndexMirrorsMetadata ==
    /\ Len(index) = Len(metadata)
    /\ \A i \in 1 .. Len(metadata) : index[i].rec = metadata[i].rec

(***************************************************************************)
(* C8: add_vectors(vectors) returns the ids current_size, ...,             *)
(* current_size + len(vectors) - 1, current_size being the number of       *)
(* records in the store before the call; ids are assigned monotonically    *)
(* (a new id is above the id of every record already stored) and each id   *)
(* is the record's insertion position.                                     *)
(***************************************************************************)
C8_IdsAreInsertionPositions ==
    [][\A vectors \in Batches : \A md \in MetaArgsFor(vectors) :
          (add_vectors(vectors, md) /\ result'.status = "ok")
              => /\ result'.value = VectorIds(Len(index), Len(vectors))
                 /\ \A i \in 1 .. Len(metadata) :
                       metadata[i].vector_id < result'.value[1]
                 /\ \A i \in (Len(metadata) + 1) .. Len(metadata') :
                       metadata'[i].vector_id = i - 1]_vars

(***************************************************************************)
(* C9: add_vectors fails with an error when any supplied vector's length   *)
(* differs from the configured dimension, and then neither the index nor   *)
(* the metadata list is changed.                                           *)
(***************************************************************************)
WrongDimension(vectors) ==
    \E i \in 1 .. Len(vectors) : Len(vectors[i]) # Dimension

C9_DimensionMismatchRejected ==
    [][(result'.op = "add_vectors" /\ WrongDimension(result'.vectors))
          => /\ result'.status = "error"
             /\ index' = index
             /\ metadata' = metadata]_vars

\* a batch of vectors of one wrong length was refused by a store that
\* already holds records
C9_Witness ==
    /\ result.op = "add_vectors"
    /\ WrongDimension(result.vectors)
    /\ result.status = "error"
    /\ result.error = "AssertionError"
    /\ index # <<>>
    /\ metadata # <<>>

(***************************************************************************)
(* C10: load() raises whenever the number of vectors in the loaded index   *)
(* differs from the length of the loaded metadata list (also when only one *)
(* of the two files exists): after a load() that read a file and returned  *)
(* normally, the index size equals len(metadata).                          *)
(***************************************************************************)
C10_LoadRejectsMismatch ==
    (/\ result.op = "load"
     /\ result.status = "ok"
     /\ (disk_index.exists \/ disk_metadata.exists))
        => Len(index) = Len(metadata)

(***************************************************************************)
(* C11: search takes the k nearest stored vectors first, nearest first,    *)
(* and only then drops those whose metadata filter_func rejects: every     *)
(* reported entry is one of the k nearest and passes the filter, the       *)
(* entries are in nearest-first order, every one of the k nearest that     *)
(* passes the filter is reported, and so at most k entries are reported.   *)
(***************************************************************************)
\* position i of the index is nearer to query than position j (0-based)
NearerThan(query, i, j) ==
    \/ L2(index[i + 1].vec, query) < L2(index[j + 1].vec, query)
    \/ /\ L2(index[i + 1].vec, query) = L2(index[j + 1].vec, query)
       /\ i < j
\* the positions of the k nearest vectors
TopK(query, k) ==
    {i \in 0 .. (Len(index) - 1) :
        Cardinality({j \in 0 .. (Len(index) - 1) : NearerThan(query, j, i)}) < k}
\* the positions whose metadata dict passes filter_func
Matching(filter_func) ==
    {i \in 0 .. (Len(index) - 1) :
        /\ HasMeta(metadata, i)
        /\ FilterAccepts(filter_func, FirstMeta(metadata, i))}
ReportedIds == {result.value[r].vector_id : r \in 1 .. Len(result.value)}

C11_FilterAfterTopK ==
    (result.op = "search" /\ result.status = "ok")
        => /\ Len(result.value) <= result.k
           /\ ReportedIds = TopK(result.query, result.k) \cap Matching(result.filter_func)
           /\ \A r \in 1 .. Len(result.value) :
                 /\ FilterAccepts(result.filter_func, result.value[r].metadata)
                 /\ result.value[r].distance
                        = L2(index[result.value[r].vector_id + 1].vec, result.query)
                 /\ \A s \in (r + 1) .. Len(result.value) :
                       NearerThan(result.query, result.value[r].vector_id,
                                  result.value[s].vector_id)

\* a search that reports fewer than k entries although k stored records
\* pass the filter
C11_Witness ==
    /\ result.op = "search"
    /\ result.status = "ok"
    /\ result.filter_func # NoTag
    /\ Len(result.value) < result.k
    /\ Cardinality(Matching(result.filter_func)) >= result.k

(***************************************************************************)
(* C12: a search without filter, k >= 1, whose query is the vector of a    *)
(* record that was added and not deleted reports first, at distance 0, the *)
(* id add_vectors assigned to a live record with that vector.              *)
(***************************************************************************)
\* the records added and not deleted whose vector is v
LiveWith(v) ==
    {rec \in 1 .. Len(added) : rec \notin deleted /\ added[rec].vec = v}

C12_SearchFindsAddedVector ==
    (/\ result.op = "search"
     /\ result.status = "ok"
     /\ result.k >= 1
     /\ result.filter_func = NoTag
     /\ LiveWith(result.query) # {})
        => /\ result.value # <<>>
           /\ result.value[1].distance = 0
           /\ \E rec \in LiveWith(result.query) :
                 result.value[1].vector_id = added[rec].vector_id

(***************************************************************************)
(* C13: get_vector returns None, and does not raise, for every id that is  *)
(* not a position of the index: an id at or past the size, a negative id.  *)
(***************************************************************************)
C13_UnknownIdGivesNone ==
    (/\ result.op = "get_vector"
     /\ (result.vector_id < 0 \/ result.vector_id >= Len(index)))
        => (result.status = "ok" /\ result.value = <<>>)

(***************************************************************************)
(* ContentRetriever (core/rag/retriever.py).  The vector store and the     *)
(* embedding generator are the objects handed to __init__: the store       *)
(* answers search(n_results=n) with at most n results, each a dict with a  *)
(* document and a similarity; either object can raise.  A similarity or a  *)
(* score is one of a few levels; a result's document is its place in the   *)
(* store's answer.                                                         *)
(***************************************************************************)
MaxDocuments == 2
Similarities == {0, 1}
Scores == {0, 1}

\* the max_documents argument: left out, or a number of documents
MaxDocsArgs == {Omitted} \cup (0 .. MaxDocuments)

\* `a or b` for an Optional[int] a
PyOr(a, b) == IF a = Omitted \/ a = 0 THEN b ELSE a

\* s[:n] for n >= 0
Take(s, n) == SubSeq(s, 1, Min(n, Len(s)))

\* what vector_store.search can return for n_results
StoreAnswers(n_results) ==
    UNION {{[i \in 1 .. n |-> [document |-> i, similarity |-> f[i]]] :
               f \in [1 .. n -> Similarities]} : n \in 0 .. n_results}

\* the list comprehension of retrieve
\* (result.get('similarity', 0) >= self.similarity_threshold)
AboveThreshold(results) ==
    SelectSeq(results, LAMBDA r : r.similarity >= similarity_threshold)

\* scored_results.sort(key=lambda x: x[1], reverse=True): descending, the
\* results with equal scores in the order they had
RerankOrder(results, scores) ==
    LET n == Len(results)
        Before(i, j) == scores[i] > scores[j] \/ (scores[i] = scores[j] /\ i < j)
        Rank(i) == Cardinality({j \in 1 .. n : Before(j, i)})
    IN  [r \in 1 .. n |-> results[CHOOSE i \in 1 .. n : Rank(i) = r - 1]]

\* the except clause of _rerank_results
RerankFallback(results) == results

Answer(op, max_documents, n_results) ==
    [NoAnswer EXCEPT !.op = op, !.max_documents = max_documents,
                     !.n_results = n_results]

retrieve(max_documents) ==
    /\ pc = "idle"
    /\ LET n_results == PyOr(max_documents, self_max_documents)
           call == Answer("retrieve", max_documents, n_results)
       IN  \/ \* generate_embedding or vector_store.search raises
              answer' = [call EXCEPT !.status = "error", !.error = "Exception"]
           \/ \E results \in StoreAnswers(n_results) :
                 answer' = [call EXCEPT !.candidates = results,
                                        !.value = AboveThreshold(results)]
    /\ UNCHANGED <<self_max_documents, similarity_threshold>>
    /\ UNCHANGED <<chunkVars, storeVars, kbVars, appVars>>

retrieve_with_reranking(max_documents) ==
    /\ pc = "idle"
    /\ LET asked == IF max_documents # Omitted /\ max_documents # 0
                    THEN max_documents * 2
                    ELSE self_max_documents * 2
           n_results == PyOr(asked, self_max_documents)
           call == Answer("retrieve_with_reranking", max_documents, n_results)
           top == PyOr(max_documents, self_max_documents)
       IN  \/ \* retrieve raises
              answer' = [call EXCEPT !.status = "error", !.error = "Exception"]
           \/ \E found \in StoreAnswers(n_results) :
                 LET results == AboveThreshold(found)
                     ranked == [call EXCEPT !.candidates = results]
                 IN  IF results = <<>>
                     THEN answer' = ranked
                     ELSE \/ \E scores \in [1 .. Len(results) -> Scores] :
                                answer' = [ranked EXCEPT
                                    !.scores = scores,
                                    !.reranked = TRUE,
                                    !.value = Take(RerankOrder(results, scores), top)]
                          \/ \* generate_embeddings raises in _rerank_results
                             answer' = [ranked EXCEPT
                                    !.value = Take(RerankFallback(results), top)]
    /\ UNCHANGED <<self_max_documents, similarity_threshold>>
    /\ UNCHANGED <<chunkVars, storeVars, kbVars, appVars>>

\* a ContentRetriever keeps nothing from one call to the next: the calls
\* that follow a call are the calls that can be made first
FirstCall == answer.op = "init"

RetrieverNext ==
    \/ /\ FirstCall
       /\ \E max_documents \in MaxDocsArgs : retrieve(max_documents)
    \/ /\ FirstCall
       /\ \E max_documents \in MaxDocsArgs : retrieve_with_reranking(max_documents)

\* a ContentRetriever with any configuration
RetrieverInit ==
    /\ text = <<>>
    /\ chunk_size = 1
    /\ chunk_overlap = 0
    /\ min_chunk_size = 1
    /\ start = 0
    /\ chunks = <<>>
    /\ pc = "idle"
    /\ iters = 0
    /\ merged = <<>>
    /\ index = <<>>
    /\ metadata = <<>>
    /\ disk_index = NoFile
    /\ disk_metadata = NoFile
    /\ result = NoCall
    /\ next_rec = 1
    /\ added = <<>>
    /\ deleted = {}
    /\ self_max_documents \in 1 .. MaxDocuments
    /\ similarity_threshold \in Similarities
    /\ answer = NoAnswer
    /\ now = 0
    /\ files = {}
    /\ kb_index = EmptyBag
    /\ kb_pc = 0
    /\ kb_doc = NoDoc
    /\ kb_trace = <<>>
    /\ kb_result = NoOutcome
    /\ issued = <<>>
    /\ items = <<>>
    /\ max_items = 1
    /\ default_ttl = 1
    /\ clock = 0
    /\ mem_call = NoMemCall
    /\ del_pc = "idle"
    /\ del_id = 0
    /\ del_i = 0
    /\ del_pre = NoStore
    /\ seen = NoSight
    /\ kb_raised = FALSE
    /\ kb_before = NoKB
    /\ tasks = <<>>
    /\ execution_history = <<>>
    /\ exec_pc = "idle"
    /\ exec_plan = <<>>
    /\ exec_results = NoResults
    /\ exec_call = NoExecCall

SpecRetriever == RetrieverInit /\ [][RetrieverNext]_vars

(***************************************************************************)
(* Claims about ContentRetriever.                                          *)
(***************************************************************************)
\* the max_documents a call is made with: the argument, or the configured
\* default when the argument is left out
InForce(max_documents) ==
    IF max_documents = Omitted THEN self_max_documents ELSE max_documents

(***************************************************************************)
(* C14: every result retrieve returns has similarity >= the threshold, and *)
(* it returns at most max_documents results: the argument, or the          *)
(* configured default when the argument is left out.                       *)
(***************************************************************************)
C14_ThresholdAndCount ==
    (answer.op = "retrieve" /\ answer.status = "ok")
        => /\ \A r \in 1 .. Len(answer.value) :
                 answer.value[r].similarity >= similarity_threshold
           /\ Len(answer.value) <= InForce(answer.max_documents)

(***************************************************************************)
(* C15: retrieve_with_reranking asks for 2 x max_documents candidates,     *)
(* orders them by score, highest first and equal scores in the order the   *)
(* candidates had, and returns the first max_documents of that order.      *)
(***************************************************************************)
\* the place of a returned result among the candidates, and its score
PlaceOf(res) == CHOOSE i \in 1 .. Len(answer.candidates) : answer.candidates[i] = res
Outranks(i, j) ==
    \/ answer.scores[i] > answer.scores[j]
    \/ answer.scores[i] = answer.scores[j] /\ i < j
Returned_Places == {PlaceOf(answer.value[r]) : r \in 1 .. Len(answer.value)}

C15_RerankedTopDocuments ==
    (/\ answer.op = "retrieve_with_reranking"
     /\ answer.status = "ok"
     /\ answer.reranked)
        => /\ answer.n_results = 2 * InForce(answer.max_documents)
           /\ Len(answer.value)
                 = Min(InForce(answer.max_documents), Len(answer.candidates))
           /\ \A r \in 1 .. Len(answer.value) :
                 /\ \E i \in 1 .. Len(answer.candidates) :
                       answer.candidates[i] = answer.value[r]
                 /\ \A q \in (r + 1) .. Len(answer.value) :
                       Outranks(PlaceOf(answer.value[r]), PlaceOf(answer.value[q]))
                 /\ \A j \in (1 .. Len(answer.candidates)) \ Returned_Places :
                       Outranks(PlaceOf(answer.value[r]), j)

(***************************************************************************)
(* C16: when the scoring call of the reranking step fails, the call of     *)
(* retrieve_with_reranking does not raise: it returns the candidates in    *)
(* the order retrieve gave them, cut to max_documents.                     *)
(***************************************************************************)
C16_RerankFailureFallsBack ==
    (/\ answer.op = "retrieve_with_reranking"
     /\ answer.candidates # <<>>
     /\ ~answer.reranked)
        => /\ answer.status = "ok"
           /\ answer.value
                 = Take(answer.candidates, InForce(answer.max_documents))

(***************************************************************************)
(* KnowledgeBase (core/rag/knowledge_base.py).  A document is its cleaned  *)
(* content with the chunks _split_into_chunks returns for it.  A file of   *)
(* base_dir is the record json.dump wrote, complete or cut off part-way.   *)
(* kb_index is the bag of chunks the retriever holds; `doc` and `pos` say  *)
(* which document and which of its chunks an entry was added for (history, *)
(* no operation reads them).  kb_pc counts the steps the add_document call *)
(* in progress has taken; 0 is no call in progress.                        *)
(***************************************************************************)
MaxTime == 1
MaxAdds == 2

Contents == {"a", "b"}
\* document.chunks for each content
ChunksOf(content) == IF content = "a" THEN <<"a1">> ELSE <<"b1", "b2">>
\* hashlib.md5(content.encode()).hexdigest()[:8]
Md5Prefix(content) == IF content = "a" THEN 1 ELSE 2

\* the metadata argument: None (no 'id' key), or a dict with this 'id'
NoId == ""
MetadataArgs == {NoId, "m"}

\* _generate_doc_id without the timestamp: the hash of the content alone
generate_doc_id_NoTimestamp(content, doc_metadata, time) ==
    IF doc_metadata # NoId
    THEN [key |-> doc_metadata, time |-> 0, hash |-> 0]
    ELSE [key |-> "doc", time |-> 0, hash |-> Md5Prefix(content)]

\* str(metadata['id']), or f"doc_{timestamp}_{content_hash[:8]}" with the
\* timestamp datetime.now() to the second
generate_doc_id(content, doc_metadata, time) ==
    IF doc_metadata # NoId
    THEN [key |-> doc_metadata, time |-> 0, hash |-> 0]
    ELSE [key |-> "doc", time |-> time, hash |-> Md5Prefix(content)]

\* add_document with the file written before the chunks reach the retriever
AddOrder_WriteBeforeIndex ==
    <<"normalise", "chunk", "embed", "write", "index", "return">>

\* the statements of add_document, in the order it runs them
AddOrder == <<"normalise", "chunk", "embed", "index", "write", "return">>

\* the step the call in progress takes next
NextStep == IF kb_pc < Len(AddOrder) THEN AddOrder[kb_pc + 1] ELSE "none"

Outcome(op, id, status, value) ==
    [op |-> op, id |-> id, status |-> status, value |-> value]

\* the entries retriever.add_documents receives for a document
Entries(id, doc_chunks) ==
    {[doc |-> id, pos |-> i, content |-> doc_chunks[i]] : i \in 1 .. Len(doc_chunks)}

\* retriever.add_documents: the entries join the retriever's contents
add_documents(idx, entries) == idx (+) SetToBag(entries)

\* retriever.clear
clear(idx) == EmptyBag

\* open(doc_path, 'w') and json.dump: the file replaces any file of that name
Written(fs, record) == {f \in fs : f.id # record.id} \cup {record}

\* doc_path.unlink() left out: the file stays
Unlinked_KeepsFile(fs, document_id) == fs

\* `if doc_path.exists(): doc_path.unlink()`
Unlinked(fs, document_id) == {f \in fs : f.id # document_id}

\* the loop of _load_if_exists over the files S, on retriever contents idx
LoadFiles(idx, S) ==
    add_documents(idx, UNION {Entries(f.id, f.chunks) : f \in S})

\* process_document: _clean_text and _generate_doc_id
process_clean(content, doc_metadata) ==
    /\ kb_pc = 0
    /\ NextStep = "normalise"
    /\ Len(issued) < MaxAdds
    /\ LET id == generate_doc_id(content, doc_metadata, now)
       IN  /\ kb_doc' = [id |-> id, content |-> content, chunks |-> <<>>]
           /\ issued' = Append(issued, [content |-> content, metadata |-> doc_metadata,
                                        time |-> now, id |-> id])
    /\ kb_pc' = 1
    /\ kb_trace' = <<"normalise">>
    /\ kb_result' = Outcome("add_document", NoDoc.id, "running", "None")
    /\ kb_before' = [index |-> kb_index, files |-> files]
    /\ UNCHANGED <<now, files, kb_index, kb_raised>>
    /\ UNCHANGED <<chunkVars, storeVars, retrVars, memVars, concVars, taskVars, execVars>>

\* process_document: _split_into_chunks
process_split ==
    /\ kb_pc > 0
    /\ NextStep = "chunk"
    /\ kb_doc' = [kb_doc EXCEPT !.chunks = ChunksOf(kb_doc.content)]
    /\ kb_pc' = kb_pc + 1
    /\ kb_trace' = Append(kb_trace, "chunk")
    /\ UNCHANGED <<now, files, kb_index, kb_result, issued>>
    /\ UNCHANGED <<chunkVars, storeVars, retrVars, appVars>>

\* embedding_generator.generate_embeddings(document.chunks, ...): one call
\* for all the chunks; it returns the embeddings or raises
generate_embeddings ==
    /\ kb_pc > 0
    /\ NextStep = "embed"
    /\ \/ /\ kb_pc' = kb_pc + 1
          /\ kb_trace' = Append(kb_trace, "embed")
          /\ UNCHANGED <<kb_result, kb_raised>>
       \/ /\ kb_pc' = 0
          /\ kb_trace' = Append(kb_trace, "raise")
          /\ kb_result' = Outcome("add_document", kb_doc.id, "error", "None")
          /\ kb_raised' = TRUE
    /\ UNCHANGED <<now, files, kb_index, kb_doc, issued, kb_before>>
    /\ UNCHANGED <<chunkVars, storeVars, retrVars, memVars, concVars, taskVars, execVars>>

\* self.retriever.add_documents([...], embedding_result['embeddings'])
retriever_add_documents ==
    /\ kb_pc > 0
    /\ NextStep = "index"
    /\ kb_index' = add_documents(kb_index, Entries(kb_doc.id, kb_doc.chunks))
    /\ kb_pc' = kb_pc + 1
    /\ kb_trace' = Append(kb_trace, "index")
    /\ UNCHANGED <<now, files, kb_doc, kb_result, issued>>
    /\ UNCHANGED <<chunkVars, storeVars, retrVars, appVars>>

\* _save_document: the record is written, or open() raises, or json.dump
\* raises with part of the record in the file
save_document ==
    /\ kb_pc > 0
    /\ NextStep = "write"
    /\ LET record == [id |-> kb_doc.id, content |-> kb_doc.content,
                      chunks |-> kb_doc.chunks, complete |-> TRUE]
       IN  \/ /\ files' = Written(files, record)
              /\ kb_pc' = kb_pc + 1
              /\ kb_trace' = Append(kb_trace, "write")
              /\ UNCHANGED <<kb_result, kb_raised>>
           \/ /\ UNCHANGED files
              /\ kb_pc' = 0
              /\ kb_trace' = Append(kb_trace, "raise")
              /\ kb_result' = Outcome("add_document", kb_doc.id, "error", "None")
              /\ kb_raised' = TRUE
           \/ /\ files' = Written(files, [record EXCEPT !.complete = FALSE])
              /\ kb_pc' = 0
              /\ kb_trace' = Append(kb_trace, "raise")
              /\ kb_result' = Outcome("add_document", kb_doc.id, "error", "None")
              /\ kb_raised' = TRUE
    /\ UNCHANGED <<now, kb_index, kb_doc, issued, kb_before>>
    /\ UNCHANGED <<chunkVars, storeVars, retrVars, memVars, concVars, taskVars, execVars>>

\* return document.id
add_document_return ==
    /\ kb_pc > 0
    /\ NextStep = "return"
    /\ kb_pc' = 0
    /\ kb_trace' = Append(kb_trace, "return")
    /\ kb_result' = Outcome("add_document", kb_doc.id, "ok", "id")
    /\ kb_before' = NoKB
    /\ UNCHANGED <<now, files, kb_index, kb_doc, issued, kb_raised>>
    /\ UNCHANGED <<chunkVars, storeVars, retrVars, memVars, concVars, taskVars, execVars>>

\* delete_document: unlink, clear, _load_if_exists.  The load reads the
\* files in the order glob gives them and raises at a file json.load cannot
\* read or when generate_embeddings raises, with the files before it loaded.
\* The outcome notes whether there was a file to unlink.
delete_document(document_id) ==
    /\ kb_pc = 0
    /\ files' = Unlinked(files, document_id)
    /\ LET found == IF \E f \in files : f.id = document_id
                    THEN "unlinked" ELSE "None"
       IN  \/ /\ \A f \in files' : f.complete
              /\ kb_index' = LoadFiles(clear(kb_index), files')
              /\ kb_result' = Outcome("delete_document", document_id, "ok", found)
              /\ UNCHANGED kb_raised
           \/ /\ files' # {}
              /\ \E S \in SUBSET {f \in files' : f.complete} :
                    /\ S # files'
                    /\ kb_index' = LoadFiles(clear(kb_index), S)
              /\ kb_result' = Outcome("delete_document", document_id, "error", found)
              /\ kb_raised' = TRUE
    /\ UNCHANGED <<now, kb_pc, kb_doc, kb_trace, issued, kb_before>>
    /\ UNCHANGED <<chunkVars, storeVars, retrVars, memVars, concVars, taskVars, execVars>>

\* the ids delete_document is called with: the id of a record in base_dir,
\* or an id no document has
UnknownId == [key |-> "x", time |-> 0, hash |-> 0]
DeleteArgs == {f.id : f \in files} \cup {UnknownId}

\* a second passes between two calls
Tick ==
    /\ kb_pc = 0
    /\ now < MaxTime
    /\ now' = now + 1
    /\ UNCHANGED <<files, kb_index, kb_pc, kb_doc, kb_trace, kb_result, issued>>
    /\ UNCHANGED <<chunkVars, storeVars, retrVars, appVars>>

KBNext ==
    \/ \E content \in Contents, doc_metadata \in MetadataArgs :
           process_clean(content, doc_metadata)
    \/ process_split
    \/ generate_embeddings
    \/ retriever_add_documents
    \/ save_document
    \/ add_document_return
    \/ \E document_id \in DeleteArgs : delete_document(document_id)
    \/ Tick

\* a KnowledgeBase on an empty base_dir
KBInit ==
    /\ text = <<>>
    /\ chunk_size = 1
    /\ chunk_overlap = 0
    /\ min_chunk_size = 1
    /\ start = 0
    /\ chunks = <<>>
    /\ pc = "idle"
    /\ iters = 0
    /\ merged = <<>>
    /\ index = <<>>
    /\ metadata = <<>>
    /\ disk_index = NoFile
    /\ disk_metadata = NoFile
    /\ result = NoCall
    /\ next_rec = 1
    /\ added = <<>>
    /\ deleted = {}
    /\ self_max_documents = 1
    /\ similarity_threshold = 0
    /\ answer = NoAnswer
    /\ now = 0
    /\ files = {}
    /\ kb_index = EmptyBag
    /\ kb_pc = 0
    /\ kb_doc = NoDoc
    /\ kb_trace = <<>>
    /\ kb_result = NoOutcome
    /\ issued = <<>>
    /\ items = <<>>
    /\ max_items = 1
    /\ default_ttl = 1
    /\ clock = 0
    /\ mem_call = NoMemCall
    /\ del_pc = "idle"
    /\ del_id = 0
    /\ del_i = 0
    /\ del_pre = NoStore
    /\ seen = NoSight
    /\ kb_raised = FALSE
    /\ kb_before = NoKB
    /\ tasks = <<>>
    /\ execution_history = <<>>
    /\ exec_pc = "idle"
    /\ exec_plan = <<>>
    /\ exec_results = NoResults
    /\ exec_call = NoExecCall

SpecKB == KBInit /\ [][KBNext]_vars

(***************************************************************************)
(* Claims about KnowledgeBase.                                             *)
(***************************************************************************)
(***************************************************************************)
(* C17: add_document runs normalise, chunk, one embedding call, index add, *)
(* write of the record file, return, in that order: the steps taken are    *)
(* always a beginning of that list (ended by the exception, if one is      *)
(* raised); once the file is written the document's chunks are in the      *)
(* index; and when the id is returned the complete record is on disk.      *)
(***************************************************************************)
C17_AddDocumentOrder ==
    LET expected == <<"normalise", "chunk", "embed", "index", "write", "return">>
        taken == IF kb_trace # <<>> /\ kb_trace[Len(kb_trace)] = "raise"
                 THEN SubSeq(kb_trace, 1, Len(kb_trace) - 1)
                 ELSE kb_trace
        wrote == \E i \in 1 .. Len(taken) : taken[i] = "write"
    IN  /\ Len(taken) <= Len(expected)
        /\ \A i \in 1 .. Len(taken) : taken[i] = expected[i]
        /\ (kb_result.op = "add_document" /\ wrote)
              => \A e \in Entries(kb_doc.id, kb_doc.chunks) : CopiesIn(e, kb_index) >= 1
        /\ (kb_result.op = "add_document" /\ kb_result.status = "ok")
              => \E f \in files :
                    /\ f.id = kb_result.id
                    /\ f.complete
                    /\ f.content = kb_doc.content
                    /\ f.chunks = kb_doc.chunks

\* add_document has returned the id of a document of two chunks
C17_Witness ==
    /\ kb_result.op = "add_document"
    /\ kb_result.status = "ok"
    /\ Len(kb_doc.chunks) = 2
    /\ Len(kb_trace) = 6

(***************************************************************************)
(* C18: after delete_document(id) has returned, no file of base_dir is the *)
(* record of id, the index holds no chunk added for id, and it holds every *)
(* chunk of every remaining record exactly once.                           *)
(***************************************************************************)
C18_DeleteReloadsIndex ==
    (kb_result.op = "delete_document" /\ kb_result.status = "ok")
        => /\ \A f \in files : f.id # kb_result.id
           /\ \A e \in BagToSet(kb_index) : e.doc # kb_result.id
           /\ \A f \in files :
                 \A e \in Entries(f.id, f.chunks) : CopiesIn(e, kb_index) = 1

\* a delete_document that removed a record and left another one
C18_Witness ==
    /\ kb_result.op = "delete_document"
    /\ kb_result.status = "ok"
    /\ kb_result.value = "unlinked"
    /\ files # {}

(***************************************************************************)
(* C19: two calls with the same content and the same metadata get the same *)
(* document id, whenever each call is made.                                *)
(***************************************************************************)
C19_IdIsStable ==
    \A i, j \in 1 .. Len(issued) :
        (issued[i].content = issued[j].content /\ issued[i].metadata = issued[j].metadata)
            => issued[i].id = issued[j].id

(***************************************************************************)
(* C19, amended: two calls with the same content and the same metadata get *)
(* the same document id exactly when the metadata carries an 'id' or both  *)
(* calls are made within the same second of the clock.                     *)
(***************************************************************************)
C19_IdStableWithinSecond ==
    \A i, j \in 1 .. Len(issued) :
        (issued[i].content = issued[j].content /\ issued[i].metadata = issued[j].metadata)
            => (issued[i].id = issued[j].id
                  <=> (issued[i].metadata # NoId \/ issued[i].time = issued[j].time))

\* the same content without a metadata id, processed in two different seconds
C19_Witness ==
    \E i, j \in 1 .. Len(issued) :
        /\ issued[i].content = issued[j].content
        /\ issued[i].metadata = NoId
        /\ issued[j].metadata = NoId
        /\ issued[i].time # issued[j].time

(***************************************************************************)
(* C20: writing a record is all-or-nothing: when _save_document fails the  *)
(* add_document call raises and base_dir holds no record file that was     *)
(* written only in part.                                                   *)
(***************************************************************************)
C20_RecordWriteAllOrNothing ==
    /\ \A f \in files : f.complete
    /\ (kb_trace # <<>> /\ kb_trace[Len(kb_trace)] = "raise")
          => (kb_result.op = "add_document" => kb_result.status = "error")

(***************************************************************************)
(* ShortTermMemory (core/memory/short_term.py).  An item is its id, its    *)
(* timestamp and its expires_at; the id is the second of its creation and  *)
(* eight random characters.  A call that returns an Optional item returns  *)
(* the empty sequence for None and a one-element sequence otherwise.       *)
(***************************************************************************)
MaxItems == 2
MaxClock == 1
RandomStrs == {"r", "s"}
Ttls == {Omitted, 0, 1}
DefaultTtls == {Omitted, 1}
ItemIds == [time : 0 .. MaxClock, random_str : RandomStrs]

\* the fields of add()'s MemoryItem that the memory itself reads
MemoryItem(id, timestamp, expires_at) ==
    [id |-> id, timestamp |-> timestamp, expires_at |-> expires_at]

generate_item_id(random_str) == [time |-> clock, random_str |-> random_str]

ExpiresAt(ttl) ==
    IF ttl # Omitted THEN clock + ttl
    ELSE IF default_ttl # Omitted THEN clock + default_ttl
    ELSE NoExpiry

MemCall(op, item_id, value) ==
    [op |-> op, item_id |-> item_id, at |-> clock, before |-> items,
     value |-> value]

\* the list after the append, once it is longer than max_items: pop(0)
EnforceMaxItems_DropNewest(appended) ==
    IF Len(appended) > max_items
    THEN SubSeq(appended, 1, Len(appended) - 1)
    ELSE appended

EnforceMaxItems(appended) ==
    IF Len(appended) > max_items THEN Tail(appended) ELSE appended

\* add(): append, then enforce the maximum
mem_add(ttl, random_str) ==
    LET item == MemoryItem(generate_item_id(random_str), clock, ExpiresAt(ttl))
        appended == Append(items, item)
    IN  /\ items' = EnforceMaxItems(appended)
        /\ mem_call' = MemCall("add", item.id, <<item>>)
        /\ UNCHANGED <<max_items, default_ttl, clock>>
        /\ UNCHANGED <<chunkVars, storeVars, ragVars, concVars, kbHist, taskVars, execVars>>

\* position of the first item with this id, 0 when there is none
FirstWithId(s, item_id) ==
    IF \E i \in 1 .. Len(s) : s[i].id = item_id
    THEN CHOOSE i \in 1 .. Len(s) :
             /\ s[i].id = item_id
             /\ \A j \in 1 .. (i - 1) : s[j].id # item_id
    ELSE 0

\* list.remove(item): the first element equal to item goes
RemoveFirstEqual(s, item) ==
    LET i == CHOOSE i \in 1 .. Len(s) :
                 /\ s[i] = item
                 /\ \A j \in 1 .. (i - 1) : s[j] # item
    IN  SubSeq(s, 1, i - 1) \o SubSeq(s, i + 1, Len(s))

\* get(): an item is expired when expires_at < now
mem_get(item_id) ==
    LET i == FirstWithId(items, item_id)
    IN  /\ IF i = 0
           THEN /\ items' = items
                /\ mem_call' = MemCall("get", item_id, <<>>)
           ELSE IF items[i].expires_at # NoExpiry /\ items[i].expires_at < clock
           THEN /\ items' = RemoveFirstEqual(items, items[i])
                /\ mem_call' = MemCall("get", item_id, <<>>)
           ELSE /\ items' = items
                /\ mem_call' = MemCall("get", item_id, <<items[i]>>)
        /\ UNCHANGED <<max_items, default_ttl, clock>>
        /\ UNCHANGED <<chunkVars, storeVars, ragVars, concVars, kbHist, taskVars, execVars>>

mem_remove(item_id) ==
    LET Other(item) == item.id # item_id
    IN  /\ items' = SelectSeq(items, Other)
        /\ mem_call' = MemCall("remove", item_id, <<>>)
        /\ UNCHANGED <<max_items, default_ttl, clock>>
        /\ UNCHANGED <<chunkVars, storeVars, ragVars, concVars, kbHist, taskVars, execVars>>

mem_clear ==
    /\ items' = <<>>
    /\ mem_call' = MemCall("clear", NoItemId, <<>>)
    /\ UNCHANGED <<max_items, default_ttl, clock>>
    /\ UNCHANGED <<chunkVars, storeVars, ragVars, concVars, kbHist, taskVars, execVars>>

\* cleanup(): an item stays when it has no expires_at or expires_at > now
Cleaned(s, t) ==
    LET Stays(item) == item.expires_at = NoExpiry \/ item.expires_at > t
    IN  SelectSeq(s, Stays)

cleanup ==
    /\ items' = Cleaned(items, clock)
    /\ mem_call' = MemCall("cleanup", NoItemId, <<>>)
    /\ UNCHANGED <<max_items, default_ttl, clock>>
    /\ UNCHANGED <<chunkVars, storeVars, ragVars, concVars, kbHist, taskVars, execVars>>

\* get_all(): cleanup(), then a copy of the list
get_all ==
    /\ items' = Cleaned(items, clock)
    /\ mem_call' = MemCall("get_all", NoItemId, Cleaned(items, clock))
    /\ UNCHANGED <<max_items, default_ttl, clock>>
    /\ UNCHANGED <<chunkVars, storeVars, ragVars, concVars, kbHist, taskVars, execVars>>

\* datetime.now() moves on between two calls
MemTick ==
    /\ clock < MaxClock
    /\ clock' = clock + 1
    /\ UNCHANGED <<items, max_items, default_ttl, mem_call>>
    /\ UNCHANGED <<chunkVars, storeVars, ragVars, concVars, kbHist, taskVars, execVars>>

MemNext ==
    \/ \E ttl \in Ttls, random_str \in RandomStrs : mem_add(ttl, random_str)
    \/ \E item_id \in ItemIds : mem_get(item_id)
    \/ \E item_id \in ItemIds : mem_remove(item_id)
    \/ mem_clear
    \/ cleanup
    \/ get_all
    \/ MemTick

\* a new ShortTermMemory(max_items, default_ttl)
MemInit ==
    /\ max_items \in 0 .. MaxItems
    /\ default_ttl \in DefaultTtls
    /\ text = <<>>
    /\ chunk_size = 1
    /\ chunk_overlap = 0
    /\ min_chunk_size = 1
    /\ start = 0
    /\ chunks = <<>>
    /\ pc = "idle"
    /\ iters = 0
    /\ merged = <<>>
    /\ index = <<>>
    /\ metadata = <<>>
    /\ disk_index = NoFile
    /\ disk_metadata = NoFile
    /\ result = NoCall
    /\ next_rec = 1
    /\ added = <<>>
    /\ deleted = {}
    /\ self_max_documents = 1
    /\ similarity_threshold = 0
    /\ answer = NoAnswer
    /\ now = 0
    /\ files = {}
    /\ kb_index = EmptyBag
    /\ kb_pc = 0
    /\ kb_doc = NoDoc
    /\ kb_trace = <<>>
    /\ kb_result = NoOutcome
    /\ issued = <<>>
    /\ items = <<>>
    /\ clock = 0
    /\ mem_call = NoMemCall
    /\ del_pc = "idle"
    /\ del_id = 0
    /\ del_i = 0
    /\ del_pre = NoStore
    /\ seen = NoSight
    /\ kb_raised = FALSE
    /\ kb_before = NoKB
    /\ tasks = <<>>
    /\ execution_history = <<>>
    /\ exec_pc = "idle"
    /\ exec_plan = <<>>
    /\ exec_results = NoResults
    /\ exec_call = NoExecCall

SpecMem == MemInit /\ [][MemNext]_vars

\* C21: the memory never holds more than max_items items; an add that
\* goes over the limit evicts exactly one item, the earliest inserted, and
\* keeps the item it added; any other add only appends
C21_BoundedOldestEvicted ==
    /\ Len(items) <= max_items
    /\ mem_call.op = "add" =>
           LET before == mem_call.before
               new == mem_call.value[1]
           IN  IF Len(before) + 1 > max_items
               THEN items = SubSeq(before, 2, Len(before)) \o <<new>>
               ELSE items = before \o <<new>>

\* C21, amended: as above for max_items >= 1; with max_items = 0 the item
\* evicted is the added one and the memory stays empty
C21_BoundedOldestEvictedIfRoom ==
    /\ Len(items) <= max_items
    /\ mem_call.op = "add" =>
           LET before == mem_call.before
               new == mem_call.value[1]
           IN  IF max_items = 0
               THEN items = <<>>
               ELSE IF Len(before) + 1 > max_items
               THEN items = SubSeq(before, 2, Len(before)) \o <<new>>
               ELSE items = before \o <<new>>

\* an add found the memory full and evicted its oldest item
C21_Witness ==
    /\ mem_call.op = "add"
    /\ max_items = MaxItems
    /\ Len(mem_call.before) = max_items
    /\ mem_call.before[1] # mem_call.before[2]
    /\ items[1] = mem_call.before[2]

\* C29: get and get_all agree on expiry at every instant: get(id) returns an
\* item exactly when get_all, called at that instant on the same memory,
\* would list that item, and neither returns an item whose expires_at has
\* passed
C29_GetAgreesWithGetAll ==
    LET listed == Cleaned(mem_call.before, mem_call.at)
        Current(item) ==
            item.expires_at = NoExpiry \/ item.expires_at >= mem_call.at
    IN  /\ mem_call.op = "get" =>
               /\ mem_call.value # <<>> =>
                      /\ \E i \in 1 .. Len(listed) : listed[i] = mem_call.value[1]
                      /\ Current(mem_call.value[1])
               /\ (\E i \in 1 .. Len(listed) : listed[i].id = mem_call.item_id)
                      => mem_call.value # <<>>
        /\ mem_call.op = "get_all" =>
               \A i \in 1 .. Len(mem_call.value) : Current(mem_call.value[i])

\* C22: merge_chunks strips from each chunk after the first the longest
\* prefix that is a suffix of the chunk given before it, and joins the
\* pieces with single spaces
LongestOverlap(a, b) ==
    LET n == Min(Len(a), Len(b))
        Shared(size) == SubSeq(a, Len(a) - size + 1, Len(a)) = SubSeq(b, 1, size)
    IN  CHOOSE size \in 0 .. n :
            /\ Shared(size)
            /\ \A larger \in (size + 1) .. n : ~Shared(larger)

StrippedAgainstInput(cs) ==
    [i \in 1 .. Len(cs) |->
        IF i = 1 THEN cs[1]
        ELSE SubSeq(cs[i], LongestOverlap(cs[i - 1], cs[i]) + 1, Len(cs[i]))]

C22_MergeStripsInputOverlap ==
    pc = "merged" => merged = JoinSpace(StrippedAgainstInput(chunks))

(***************************************************************************)
(* delete_vector running on one thread while another thread calls search.  *)
(* The store has no lock, so the other thread can run between any two      *)
(* assignments of delete_vector and _rebuild_index: the assignment of the  *)
(* filtered list to self.metadata, the assignment of the new index to      *)
(* self.index in _init_index, and each turn of the loop that adds vectors  *)
(* back.  add_vectors and a second delete_vector wait for the call to end; *)
(* vectors are added without metadata of their own and the search has no   *)
(* filter_func.                                                            *)
(***************************************************************************)

\* the index _init_index creates, with the old index kept instead
init_index_KeepsOld == index

\* the index _init_index creates
init_index == <<>>

\* self.metadata = [meta for meta in self.metadata if ...]
delete_vector_filter(vector_id) ==
    /\ pc = "idle"
    /\ del_pc = "idle"
    /\ del_pc' = "filtered"
    /\ del_id' = vector_id
    /\ del_pre' = [index |-> index, metadata |-> metadata]
    /\ metadata' = Surviving(metadata, vector_id)
    /\ deleted' = deleted \cup
           {metadata[i].rec : i \in {j \in 1 .. Len(metadata) :
                                       metadata[j].vector_id = vector_id}}
    /\ added' = [rec \in 1 .. Len(added) |->
                   IF \E j \in 1 .. Len(metadata) :
                         metadata[j].rec = rec /\ metadata[j].vector_id = vector_id
                   THEN Forgotten
                   ELSE added[rec]]
    /\ seen' = NoSight
    /\ UNCHANGED <<index, disk_index, disk_metadata, result, next_rec>>
    /\ UNCHANGED del_i
    /\ UNCHANGED <<chunkVars, ragVars, memVars, kbHist, taskVars, execVars>>

\* _rebuild_index: self._init_index()
rebuild_init_index ==
    /\ del_pc = "filtered"
    /\ del_pc' = "rebuilding"
    /\ index' = init_index
    /\ del_i' = 1
    /\ UNCHANGED <<metadata, disk_index, disk_metadata, result, next_rec,
                   deleted, added>>
    /\ UNCHANGED <<del_id, del_pre, seen>>
    /\ UNCHANGED <<chunkVars, ragVars, memVars, kbHist, taskVars, execVars>>

\* one turn of `for meta in self.metadata`: get_vector, then index.add
rebuild_add_back ==
    /\ del_pc = "rebuilding"
    /\ del_i <= Len(metadata)
    /\ LET vector == get_vector(index, metadata[del_i].vector_id)
       IN  IF vector.kind = "raise"
           THEN /\ result' = Raised("delete_vector", "RuntimeError")
                /\ del_pc' = "idle"
                /\ UNCHANGED <<index, del_i>>
           ELSE /\ index' = IF vector.kind = "none" THEN index
                            ELSE Append(index, vector.entry)
                /\ del_i' = del_i + 1
                /\ UNCHANGED <<result, del_pc>>
    /\ UNCHANGED <<metadata, disk_index, disk_metadata, next_rec, deleted, added>>
    /\ UNCHANGED <<del_id, del_pre, seen>>
    /\ UNCHANGED <<chunkVars, ragVars, memVars, kbHist, taskVars, execVars>>

\* the loop is over: _rebuild_index and delete_vector return
delete_vector_return ==
    /\ del_pc = "rebuilding"
    /\ del_i > Len(metadata)
    /\ del_pc' = "idle"
    /\ result' = Returned("delete_vector", <<>>)
    /\ UNCHANGED <<index, metadata, disk_index, disk_metadata, next_rec,
                   deleted, added>>
    /\ UNCHANGED <<del_id, del_i, del_pre, seen>>
    /\ UNCHANGED <<chunkVars, ragVars, memVars, kbHist, taskVars, execVars>>

\* search on the other thread, wherever delete_vector is
concurrent_search(query_vector, k, filter_func) ==
    /\ pc = "idle"
    /\ del_pc # "idle"
    /\ result' = Asked(query_vector, k, filter_func,
                       Returned("search",
                                SearchResults(index, metadata, query_vector, k,
                                              filter_func)))
    /\ seen' = [pc |-> del_pc, vector_id |-> del_id, index |-> index,
                metadata |-> metadata, pre |-> del_pre]
    /\ UNCHANGED <<index, metadata, disk_index, disk_metadata, next_rec,
                   deleted, added>>
    /\ UNCHANGED <<del_pc, del_id, del_i, del_pre>>
    /\ UNCHANGED <<chunkVars, ragVars, memVars, kbHist, taskVars, execVars>>

ConcNext ==
    \/ /\ del_pc = "idle"
       /\ \E vectors \in ValidBatches : add_vectors(vectors, <<>>)
    \/ \E vector_id \in 0 .. (MaxRecords - 1) : delete_vector_filter(vector_id)
    \/ rebuild_init_index
    \/ rebuild_add_back
    \/ delete_vector_return
    \/ /\ result.op # "search" \/ seen.pc # del_pc
       /\ \E q \in ValidVectors, k \in 1 .. MaxK :
              concurrent_search(q, k, NoTag)

SpecConc == Init /\ [][ConcNext]_vars

\* C23: delete_vector is not atomic for a concurrent search: a search that
\* runs while delete_vector is in progress finds the metadata entry already
\* removed and the index not yet rebuilt (still the index the call found)
\* or only partly rebuilt (the survivors added back so far)
C23_SearchSeesDeleteInProgress ==
    LET kept == SelectSeq(seen.pre.metadata,
                          LAMBDA meta : meta.vector_id # seen.vector_id)
        whole == rebuild_index(kept).index
    IN  /\ seen.pc # "idle" => seen.metadata = kept
        /\ seen.pc = "filtered" => seen.index = seen.pre.index
        /\ seen.pc = "rebuilding" =>
               /\ Len(seen.index) <= Len(whole)
               /\ seen.index = SubSeq(whole, 1, Len(seen.index))

\* a search ran between the removal of the metadata entry and the rebuild
\* and had before it a store that is neither the one delete_vector found
\* nor the one it leaves
C23_Witness ==
    LET left == [index |-> rebuild_index(seen.metadata).index,
                 metadata |-> seen.metadata]
        found == [index |-> seen.index, metadata |-> seen.metadata]
    IN  /\ result.op = "search"
        /\ seen.pc = "filtered"
        /\ found # seen.pre
        /\ found # left
        /\ result.value # SearchResults(seen.pre.index, seen.pre.metadata,
                                        result.query, result.k, result.filter_func)
        /\ result.value # SearchResults(left.index, left.metadata,
                                        result.query, result.k, result.filter_func)

(***************************************************************************)
(* _split_into_chunks with a chunk_size that exceeds chunk_overlap by more *)
(* than the radius of the sentence search, as the defaults 1000 and 200    *)
(* do.  The texts are long enough for several windows: LongTextLen         *)
(* characters "a" with up to MaxStops sentence ends ". " anywhere in them, *)
(* and the empty text.                                                     *)
(***************************************************************************)
LongTextLen == 110
MaxStops == 1
MaxExcess == 3

\* the text of LongTextLen characters with a sentence end at each 0-based
\* position of stops
TextWithStops(stops) ==
    [i \in 1 .. LongTextLen |->
        IF (i - 1) \in stops THEN "."
        ELSE IF (i - 2) \in stops THEN " "
        ELSE "a"]

NoStop == NoMatch
StopSets ==
    {{f[n] : n \in 1 .. MaxStops} \ {NoStop} :
        f \in [1 .. MaxStops -> {NoStop} \cup (0 .. (LongTextLen - 3))]}

\* every such text is as _clean_text leaves it: a blank only follows a ".",
\* never another blank, and is neither the first nor the last character
WindowTexts == {<<>>} \cup {TextWithStops(stops) : stops \in StopSets}

WindowInit ==
    /\ text \in WindowTexts
    /\ chunk_size \in (SentenceWindow + 1) .. (SentenceWindow + MaxExcess)
    /\ chunk_overlap \in 0 .. (chunk_size - SentenceWindow - 1)
    /\ min_chunk_size = 1
    /\ start = 0
    /\ chunks = <<>>
    /\ pc = "split"
    /\ iters = 0
    /\ merged = <<>>
    /\ index = <<>>
    /\ metadata = <<>>
    /\ disk_index = NoFile
    /\ disk_metadata = NoFile
    /\ result = NoCall
    /\ next_rec = 1
    /\ added = <<>>
    /\ deleted = {}
    /\ self_max_documents = 1
    /\ similarity_threshold = 0
    /\ answer = NoAnswer
    /\ now = 0
    /\ files = {}
    /\ kb_index = EmptyBag
    /\ kb_pc = 0
    /\ kb_doc = NoDoc
    /\ kb_trace = <<>>
    /\ kb_result = NoOutcome
    /\ issued = <<>>
    /\ items = <<>>
    /\ max_items = 1
    /\ default_ttl = 1
    /\ clock = 0
    /\ mem_call = NoMemCall
    /\ del_pc = "idle"
    /\ del_id = 0
    /\ del_i = 0
    /\ del_pre = NoStore
    /\ seen = NoSight
    /\ kb_raised = FALSE
    /\ kb_before = NoKB
    /\ tasks = <<>>
    /\ execution_history = <<>>
    /\ exec_pc = "idle"
    /\ exec_plan = <<>>
    /\ exec_results = NoResults
    /\ exec_call = NoExecCall

WindowNext == SplitLoopExit \/ SplitLastChunk \/ SplitNextChunk

SpecWindow == WindowInit /\ [][WindowNext]_vars

\* C24: with chunk_size - chunk_overlap above the radius of the sentence
\* search, every non-final iteration moves start forward by at least
\* chunk_size - chunk_overlap - 100, start never decreases and is never
\* negative, and the loop ends: it never needs more iterations than the
\* text has characters
C24_WindowAdvances ==
    /\ [](chunk_size - chunk_overlap > SentenceWindow =>
             /\ start >= 0
             /\ iters <= Len(text))
    /\ [][(chunk_size - chunk_overlap > SentenceWindow)
             => /\ start' >= start
                /\ (iters' = iters + 1) =>
                       start' - start >= chunk_size - chunk_overlap - SentenceWindow]_vars

\* a text was cut in three windows or more, the first one ended at a
\* sentence end before its nominal end
C24_Witness ==
    /\ chunk_size - chunk_overlap > SentenceWindow
    /\ pc = "split_done"
    /\ iters >= 2
    /\ Len(chunks) >= 3
    /\ Len(chunks[1]) < chunk_size - chunk_overlap

\* C25: every search result pairs a vector with its own metadata: the
\* metadata reported for an index position is the one supplied, in the same
\* add_vectors call, for the vector now stored at that position
C25_ResultPairsOwnMetadata ==
    (result.op = "search" /\ result.status = "ok")
        => \A r \in 1 .. Len(result.value) :
              result.value[r].metadata.rec
                  = index[result.value[r].vector_id + 1].rec

\* C26: after add_document and delete_document calls that all returned
\* without error, whatever the document ids, the chunks the retriever holds
\* are exactly the chunks of the records in base_dir, each held once
C26_IndexMatchesRecords ==
    (kb_pc = 0 /\ ~kb_raised)
        => kb_index = SetToBag(UNION {Entries(f.id, f.chunks) : f \in files})

\* C27: when add_document raises, the retriever holds what it held before
\* the call and base_dir has no file it did not have before
C27_FailedAddChangesNothing ==
    (kb_pc = 0 /\ kb_result.op = "add_document" /\ kb_result.status = "error")
        => /\ kb_index = kb_before.index
           /\ \A f \in files : \E g \in kb_before.files : g.id = f.id

(***************************************************************************)
(* TaskManager (personal/task_manager.py).  Every call loads tasks.json,   *)
(* changes the list and writes it back; a task is its id, its title and    *)
(* its completed flag.                                                     *)
(***************************************************************************)
MaxTasks == 3
Titles == {"t", "u"}
TaskIds == 1 .. (MaxTasks + 1)

\* task['id'] = str(len(tasks) + 1)
NewTaskId(stored) == Len(stored) + 1

add_task(title) ==
    /\ Len(tasks) < MaxTasks
    /\ tasks' = Append(tasks, [id |-> NewTaskId(tasks), title |-> title,
                               completed |-> FALSE])
    /\ UNCHANGED <<chunkVars, storeVars, ragVars, memVars, concVars, kbHist,
                   execVars>>

\* update_task with updates = {'completed': completed}: the first task with
\* the id is updated
update_task(task_id, completed) ==
    /\ tasks' = [i \in 1 .. Len(tasks) |->
                   IF /\ tasks[i].id = task_id
                      /\ \A j \in 1 .. (i - 1) : tasks[j].id # task_id
                   THEN [tasks[i] EXCEPT !.completed = completed]
                   ELSE tasks[i]]
    /\ UNCHANGED <<chunkVars, storeVars, ragVars, memVars, concVars, kbHist,
                   execVars>>

delete_task(task_id) ==
    /\ tasks' = SelectSeq(tasks, LAMBDA task : task.id # task_id)
    /\ UNCHANGED <<chunkVars, storeVars, ragVars, memVars, concVars, kbHist,
                   execVars>>

TaskNext ==
    \/ \E title \in Titles : add_task(title)
    \/ \E task_id \in TaskIds, completed \in BOOLEAN : update_task(task_id, completed)
    \/ \E task_id \in TaskIds : delete_task(task_id)

SpecTask == Init /\ [][TaskNext]_vars

\* C28: after any add_task and delete_task calls, the stored tasks have
\* pairwise distinct ids
C28_TaskIdsDistinct ==
    \A i, j \in 1 .. Len(tasks) : tasks[i].id = tasks[j].id => i = j

(***************************************************************************)
(* ActionExecutor (core/agent/executor.py).  A plan is the list of its     *)
(* steps, a step is what happens when it is executed: "ok", the tool       *)
(* returns a dict whose 'context' is a mapping (or has none); "fail", the  *)
(* action is unknown or the tool raises, and execute_step returns          *)
(* success False; "bad_context", the tool returns a dict whose 'context'   *)
(* is not a mapping, as {'context': None}.  results is kept as its         *)
(* 'success', its 'steps' (the position of each step in the plan and its   *)
(* 'success'), the number of its 'errors' and the steps whose context was  *)
(* merged into its 'context'.                                              *)
(***************************************************************************)
MaxSteps == 3
MaxHistory == 2
StepKinds == {"ok", "fail", "bad_context"}
Plans == UNION {[1 .. n -> StepKinds] : n \in 0 .. MaxSteps}

\* the loop of execute_plan without its break
MoreSteps_NoBreak(plan, results) == Len(results.steps) < Len(plan)

\* `for step in plan['steps']` has another step and no step has failed
MoreSteps(plan, results) ==
    Len(results.steps) < Len(plan) /\ results.success

\* execute_step: the dict it returns for the step at position i
StepResult(plan, i) == [step |-> i, success |-> plan[i] # "fail"]

ExecCall(status, results) ==
    [exec_call EXCEPT !.status = status, !.results = results]

\* execute_plan is called: results is initialised
execute_plan(plan) ==
    /\ exec_pc = "idle"
    /\ Len(execution_history) < MaxHistory
    /\ exec_pc' = "running"
    /\ exec_plan' = plan
    /\ exec_results' = NoResults
    /\ exec_call' = [status |-> "running", plan |-> plan, results |-> NoResults,
                     history |-> execution_history]
    /\ UNCHANGED execution_history
    /\ UNCHANGED <<chunkVars, storeVars, ragVars, memVars, concVars, kbHist,
                   taskVars>>

\* one turn of the loop: execute_step, append its result, merge its
\* context, break on failure.  The merge raises for a context that is not a
\* mapping, and execute_plan re-raises
execute_step ==
    /\ exec_pc = "running"
    /\ MoreSteps(exec_plan, exec_results)
    /\ LET i == Len(exec_results.steps) + 1
           step_result == StepResult(exec_plan, i)
           appended == [exec_results EXCEPT !.steps = Append(@, step_result)]
       IN  IF exec_plan[i] = "bad_context"
           THEN /\ exec_results' = appended
                /\ exec_pc' = "idle"
                /\ exec_call' = ExecCall("raised", appended)
           ELSE IF ~step_result.success
           THEN /\ exec_results' = [appended EXCEPT !.success = FALSE,
                                                    !.errors = @ + 1]
                /\ UNCHANGED <<exec_pc, exec_call>>
           ELSE /\ exec_results' = [appended EXCEPT !.context = @ \cup {i}]
                /\ UNCHANGED <<exec_pc, exec_call>>
    /\ UNCHANGED <<execution_history, exec_plan>>
    /\ UNCHANGED <<chunkVars, storeVars, ragVars, memVars, concVars, kbHist,
                   taskVars>>

\* after the loop: the results are appended to the history and returned
execute_plan_return ==
    /\ exec_pc = "running"
    /\ ~MoreSteps(exec_plan, exec_results)
    /\ execution_history' = Append(execution_history, exec_results)
    /\ exec_pc' = "idle"
    /\ exec_call' = ExecCall("returned", exec_results)
    /\ UNCHANGED <<exec_plan, exec_results>>
    /\ UNCHANGED <<chunkVars, storeVars, ragVars, memVars, concVars, kbHist,
                   taskVars>>

clear_execution_history ==
    /\ exec_pc = "idle"
    /\ execution_history' = <<>>
    /\ exec_call' = NoExecCall
    /\ UNCHANGED <<exec_pc, exec_plan, exec_results>>
    /\ UNCHANGED <<chunkVars, storeVars, ragVars, memVars, concVars, kbHist,
                   taskVars>>

ExecNext ==
    \/ \E plan \in Plans : execute_plan(plan)
    \/ execute_step
    \/ execute_plan_return
    \/ clear_execution_history

SpecExec == Init /\ [][ExecNext]_vars

\* what C30 says of the steps of a call that has ended: they were executed
\* in list order, none after a failed one, one entry each, and all of them
\* unless one failed
StepsInOrder(call) ==
    LET done == call.results.steps
    IN  /\ Len(done) <= Len(call.plan)
        /\ \A k \in 1 .. Len(done) :
              /\ done[k].step = k
              /\ done[k].success = (call.plan[k] # "fail")
              /\ k < Len(done) => done[k].success
        /\ call.status = "returned" =>
              \/ Len(done) = Len(call.plan)
              \/ Len(done) > 0 /\ ~done[Len(done)].success

LastStepFailed(call) ==
    LET done == call.results.steps
    IN  Len(done) > 0 /\ ~done[Len(done)].success

\* C30: execute_plan executes the steps in list order and stops at the
\* first failing step; results['steps'] has one entry per executed step,
\* results['success'] is False exactly when the last executed step failed,
\* and every call appends exactly one record to execution_history
C30_PlanRunsInOrderAndIsRecorded ==
    exec_call.status \in {"returned", "raised"}
        => /\ StepsInOrder(exec_call)
           /\ ~exec_call.results.success <=> LastStepFailed(exec_call)
           /\ execution_history = Append(exec_call.history, exec_call.results)

\* C30, amended: as above for a call that returns; a call that raises
\* leaves execution_history as it was
C30_ReturnedPlanIsRecorded ==
    /\ exec_call.status \in {"returned", "raised"} =>
           /\ StepsInOrder(exec_call)
           /\ ~exec_call.results.success <=> LastStepFailed(exec_call)
    /\ exec_call.status = "returned" =>
           execution_history = Append(exec_call.history, exec_call.results)
    /\ exec_call.status = "raised" =>
           execution_history = exec_call.history

\* a call returned after its second step failed, with a third step left
C30_Witness ==
    /\ exec_call.status = "returned"
    /\ Len(exec_call.plan) = 3
    /\ Len(exec_call.results.steps) = 2
    /\ ~exec_call.results.success
    /\ Len(execution_history) = 2

====
